---- MODULE Spec2Model ----
(***************************************************************************)
(* Model of the CouchDB view JobDump/jobStatusByWorkflowAndSite (map.js).  *)
(* The view's map function is invoked by the indexer once per stored       *)
(* document; for a document of type "job" it scans doc.states with a       *)
(* for-in loop, resolves the site, classifies the job with statusMap()     *)
(* and emits ([workflow, status, site], 1).                                *)
(*                                                                         *)
(* Positions of doc.states are 0-based as in the source.  A document       *)
(* carries, next to its fields, the order in which the engine's for-in     *)
(* enumerates the keys of doc.states ("keys"): the source does not decide  *)
(* that order (map.js:76-77), so every permutation is an input.            *)
(***************************************************************************)
EXTENDS Integers, Sequences, FiniteSets, TLC

VARIABLES
    store,          \* the documents of the database, a sequence
    cur,            \* slot of the document the map function is running on, 0 before the first call
    pc,             \* position of the running invocation
    k,              \* number of keys the for-in loop has visited
    lastStateIndex, \* map.js:70,78
    tmpSite,        \* map.js:68
    siteLocation,   \* map.js:69
    status,         \* statusMap's return value, NoValue before it returns
    error,          \* the exception that ended the invocation, NoError if none
    reads,          \* positions of doc.states statusMap has read
    emitted,        \* records the running invocation has emitted
    first           \* per slot, the outcome of the first completed invocation

vars == <<store, cur, pc, k, lastStateIndex, tmpSite, siteLocation, status,
          error, reads, emitted, first>>

----------------------------------------------------------------------------
(* Values *)

Null == "null"
NoValue == "undefined"
NoError == "none"
\* the string thrown by statusMap (map.js:12,24,38,55,58)
InvalidTransition == "not valid transition"
\* the engine's exception for a property read on undefined
TypeError == "TypeError"
Agent == "Agent"

----------------------------------------------------------------------------
(* statusMap, map.js:3-65 *)

\* doc['states'][i]: whether the read yields a transition or undefined
Defined(states, i) == i \in DOMAIN states

Returns(s, r) == [status |-> s, error |-> NoError, reads |-> r]
Throws(e, r) == [status |-> NoValue, error |-> e, reads |-> r]

\* case 'executing' consulting the last transition instead of the one before it
CaseExecutingLast(states, idx) ==
    IF states[idx].oldstate = "new" THEN Returns("submitted_first", {idx})
    ELSE IF states[idx].oldstate = "jobcooloff" THEN Returns("submitted_retry", {idx})
    ELSE Throws(InvalidTransition, {idx})

\* case 'exhausted' with the statuses of jobfailed and submitfailed exchanged
CaseExhaustedSwapped(states, idx) ==
    IF states[idx].oldstate = "jobfailed" THEN Returns("failure_submit", {idx})
    ELSE IF states[idx].oldstate = "submitfailed" THEN Returns("failure_exception", {idx})
    ELSE IF states[idx].oldstate = "createfailed" THEN Returns("failure_create", {idx})
    ELSE Throws(InvalidTransition, {idx})

\* case 'cleanout' consulting, for a job that was exhausted, the last transition
CaseCleanoutLast(states, idx) ==
    IF states[idx].oldstate = "success" THEN Returns("success", {idx})
    ELSE IF states[idx].oldstate = "jobfailed" THEN Returns("failure_exception", {idx})
    ELSE IF states[idx].oldstate = "submitfailed" THEN Returns("failure_submit", {idx})
    ELSE IF states[idx].oldstate = "createfailed" THEN Returns("failure_create", {idx})
    ELSE Throws(InvalidTransition, {idx})

\* case 'cleanout' consulting, for a job that was exhausted, the transition two
\* positions before the last when there is one
CaseCleanoutTwoBack(states, idx) ==
    LET p == IF Defined(states, idx - 2) THEN idx - 2 ELSE idx - 1
    IN IF states[idx].oldstate = "success" THEN Returns("success", {idx})
       ELSE IF states[idx].oldstate = "exhausted" THEN
           IF ~Defined(states, p) THEN Throws(TypeError, {idx, p})
           ELSE IF states[p].oldstate = "jobfailed" THEN Returns("failure_exception", {idx, p})
           ELSE IF states[p].oldstate = "submitfailed" THEN Returns("failure_submit", {idx, p})
           ELSE IF states[p].oldstate = "createfailed" THEN Returns("failure_create", {idx, p})
           ELSE Throws(InvalidTransition, {idx, p})
       ELSE Throws(InvalidTransition, {idx})

\* case 'created', map.js:6-14
CaseCreated(states, idx) ==
    IF states[idx].oldstate = "new" THEN Returns("queued_first", {idx})
    ELSE IF states[idx].oldstate = "jobcooloff" THEN Returns("queued_retry", {idx})
    ELSE Throws(InvalidTransition, {idx})

\* case 'executing', map.js:18-26; states[idx - 1] is undefined when idx is 0,
\* and reading .oldstate of undefined raises the engine's TypeError
CaseExecuting(states, idx) ==
    IF ~Defined(states, idx - 1) THEN Throws(TypeError, {idx, idx - 1})
    ELSE IF states[idx - 1].oldstate = "new" THEN Returns("submitted_first", {idx, idx - 1})
    ELSE IF states[idx - 1].oldstate = "jobcooloff" THEN Returns("submitted_retry", {idx, idx - 1})
    ELSE Throws(InvalidTransition, {idx, idx - 1})

\* case 'exhausted', map.js:30-40
CaseExhausted(states, idx) ==
    IF states[idx].oldstate = "jobfailed" THEN Returns("failure_exception", {idx})
    ELSE IF states[idx].oldstate = "submitfailed" THEN Returns("failure_submit", {idx})
    ELSE IF states[idx].oldstate = "createfailed" THEN Returns("failure_create", {idx})
    ELSE Throws(InvalidTransition, {idx})

\* case 'cleanout', map.js:44-60
CaseCleanout(states, idx) ==
    IF states[idx].oldstate = "success" THEN Returns("success", {idx})
    ELSE IF states[idx].oldstate = "exhausted" THEN
        IF ~Defined(states, idx - 1) THEN Throws(TypeError, {idx, idx - 1})
        ELSE IF states[idx - 1].oldstate = "jobfailed" THEN Returns("failure_exception", {idx, idx - 1})
        ELSE IF states[idx - 1].oldstate = "submitfailed" THEN Returns("failure_submit", {idx, idx - 1})
        ELSE IF states[idx - 1].oldstate = "createfailed" THEN Returns("failure_create", {idx, idx - 1})
        ELSE Throws(InvalidTransition, {idx, idx - 1})
    ELSE Throws(InvalidTransition, {idx})

\* the switch of map.js:5-63 on doc['states'][lastStateIndex].newstate
Switch(states, idx) ==
    CASE states[idx].newstate = "created"    -> CaseCreated(states, idx)
      [] states[idx].newstate = "jobcooloff" -> Returns("cooloff", {idx})
      [] states[idx].newstate = "executing"  -> CaseExecuting(states, idx)
      [] states[idx].newstate = "success"    -> Returns("success", {idx})
      [] states[idx].newstate = "exhausted"  -> CaseExhausted(states, idx)
      [] states[idx].newstate = "killed"     -> Returns("canceled", {idx})
      [] states[idx].newstate = "cleanout"   -> CaseCleanout(states, idx)
      [] OTHER                               -> Returns("transition", {idx})

\* statusMap() taking the default branch when there is no transition at idx
StatusMapNoTransition(states, idx) ==
    IF ~Defined(states, idx) THEN Returns("transition", {idx})
    ELSE Switch(states, idx)

\* statusMap(), map.js:3-65, with lastStateIndex = idx; with no transition at idx
\* the read of .newstate at map.js:5 raises the engine's TypeError
StatusMap(states, idx) ==
    IF ~Defined(states, idx) THEN Throws(TypeError, {idx})
    ELSE Switch(states, idx)

----------------------------------------------------------------------------
(* The map function, map.js:1-91 *)

doc == store[cur]

Outcome(e, em) == [error |-> e, emitted |-> em]

\* the outcome of a slot's first completed invocation is kept
Record(i, e, em) ==
    first' = [first EXCEPT ![i] = IF @ = {} THEN {Outcome(e, em)} ELSE @]

\* function(doc) with siteLocation kept from the previous call
InvokeStale(i) ==
    /\ pc \in {"idle", "done"}
    /\ cur' = i
    /\ k' = 0
    /\ status' = NoValue
    /\ error' = NoError
    /\ reads' = {}
    /\ emitted' = <<>>
    /\ IF store[i].type = "job"
       THEN /\ tmpSite' = Null
            /\ siteLocation' = (IF siteLocation = NoValue THEN Null ELSE siteLocation)
            /\ lastStateIndex' = 0
            /\ pc' = "loop"
            /\ first' = first
       ELSE /\ tmpSite' = NoValue
            /\ siteLocation' = siteLocation
            /\ lastStateIndex' = NoValue
            /\ pc' = "done"
            /\ Record(i, NoError, <<>>)
    /\ UNCHANGED store

\* function(doc) is entered on document i; the test of map.js:67 and, for a
\* job, the declarations of map.js:68-70.  The locals are fresh in every call.
Invoke(i) ==
    /\ pc \in {"idle", "done"}
    /\ cur' = i
    /\ k' = 0
    /\ status' = NoValue
    /\ error' = NoError
    /\ reads' = {}
    /\ emitted' = <<>>
    /\ IF store[i].type = "job"
       THEN /\ tmpSite' = Null
            /\ siteLocation' = Null
            /\ lastStateIndex' = 0
            /\ pc' = "loop"
            /\ first' = first
       ELSE /\ tmpSite' = NoValue
            /\ siteLocation' = NoValue
            /\ lastStateIndex' = NoValue
            /\ pc' = "done"
            /\ Record(i, NoError, <<>>)
    /\ UNCHANGED store

\* one iteration of the for-in loop, map.js:78-83
\* (the loop variable is the key as a string; doc['states'][key] and key - 1
\* convert it to the position it denotes, so positions are kept as integers)
LoopStep ==
    /\ pc = "loop"
    /\ k < Len(doc.keys)
    /\ k' = k + 1
    /\ lastStateIndex' = doc.keys[k + 1]
    /\ tmpSite' = doc.states[lastStateIndex'].location
    /\ siteLocation' = IF tmpSite' # Agent THEN tmpSite' ELSE siteLocation
    /\ UNCHANGED <<store, cur, pc, status, error, reads, emitted, first>>

\* the loop has visited every key; map.js:84-87
LoopExit ==
    /\ pc = "loop"
    /\ k = Len(doc.keys)
    /\ siteLocation' = IF siteLocation = Null THEN tmpSite ELSE siteLocation
    /\ pc' = "statusMap"
    /\ UNCHANGED <<store, cur, k, lastStateIndex, tmpSite, status, error, reads,
                   emitted, first>>

\* statusMap() with its exception caught and the record emitted all the same
CallStatusMapCaught ==
    /\ pc = "statusMap"
    /\ LET r == StatusMap(doc.states, lastStateIndex)
       IN /\ status' = r.status
          /\ error' = r.error
          /\ reads' = r.reads
          /\ pc' = "emit"
          /\ first' = first
    /\ UNCHANGED <<store, cur, k, lastStateIndex, tmpSite, siteLocation, emitted>>

\* the argument statusMap() of map.js:89 is evaluated; a throw ends the call
CallStatusMap ==
    /\ pc = "statusMap"
    /\ LET r == StatusMap(doc.states, lastStateIndex)
       IN /\ status' = r.status
          /\ error' = r.error
          /\ reads' = r.reads
          /\ IF r.error = NoError
             THEN pc' = "emit" /\ first' = first
             ELSE pc' = "done" /\ Record(cur, r.error, emitted)
    /\ UNCHANGED <<store, cur, k, lastStateIndex, tmpSite, siteLocation, emitted>>

\* emit([doc['workflow'], statusMap(), siteLocation], 1), map.js:89
Emit ==
    /\ pc = "emit"
    /\ emitted' = Append(emitted, [key |-> <<doc.workflow, status, siteLocation>>,
                                   value |-> 1])
    /\ pc' = "done"
    /\ Record(cur, error, emitted')
    /\ UNCHANGED <<store, cur, k, lastStateIndex, tmpSite, siteLocation, status,
                   error, reads>>

Next ==
    \/ \E i \in 1..Len(store) : Invoke(i)
    \/ LoopStep
    \/ LoopExit
    \/ CallStatusMap
    \/ Emit

----------------------------------------------------------------------------
(* Documents *)

\* the most transitions a history holds
MaxLen == 2
\* the most transitions of a history of the lookback specification
MaxDeep == 3
\* the most transitions of a history of the indexer specification
MaxShort == 1
\* the documents of the database of the indexer specification
NumDocs == 2

OldStates == {"new", "jobcooloff", "jobfailed", "submitfailed", "createfailed",
              "success", "exhausted", "created", "bogus"}
NewStates == {"created", "jobcooloff", "executing", "success", "exhausted",
              "killed", "cleanout", "jobfailed"}
Sites == {Agent, "siteA", "siteB"}

\* the orders in which the n keys 0..n-1 can be enumerated
KeyOrders(n) ==
    {s \in [1..n -> 0..(n - 1)] : \A a, b \in 1..n : a # b => s[a] # s[b]}

\* the enumeration of the keys 0..n-1 in ascending order but for idx, which comes last
EndingIn(n, idx) ==
    [j \in 1..n |-> IF j = n THEN idx ELSE IF j - 1 < idx THEN j - 1 ELSE j]

Document(ty, w, h, ks) == [type |-> ty, workflow |-> w, states |-> h, keys |-> ks]

\* the state before the indexer's first call, the database holding `docs`
Start(docs) ==
    /\ store = docs
    /\ cur = 0
    /\ pc = "idle"
    /\ k = 0
    /\ lastStateIndex = NoValue
    /\ tmpSite = NoValue
    /\ siteLocation = NoValue
    /\ status = NoValue
    /\ error = NoError
    /\ reads = {}
    /\ emitted = <<>>
    /\ first = [i \in 1..Len(docs) |-> {}]

\* a database of one document of a type in `types`, its transitions drawn
\* from T, at most n of them, its keys enumerated in any order
OneDocument(types, workflows, T, n) ==
    \E m \in 0..n : \E ty \in types, w \in workflows, h \in [0..(m - 1) -> T],
                       ks \in KeyOrders(m) :
        Start(<<Document(ty, w, h, ks)>>)

\* the locals once the for-in loop of map.js:78-83 has visited the first n keys
RECURSIVE ForIn(_, _, _)
ForIn(states, ks, n) ==
    IF n = 0
    THEN [lastStateIndex |-> 0, tmpSite |-> Null, siteLocation |-> Null]
    ELSE LET p == ForIn(states, ks, n - 1)
             t == states[ks[n]].location
         IN [lastStateIndex |-> ks[n], tmpSite |-> t,
             siteLocation |-> IF t # Agent THEN t ELSE p.siteLocation]

\* the state of a first invocation on the job d in which the loop and the
\* fallback of map.js:84-87 are over and statusMap() is about to be evaluated
AtStatusMap(d) ==
    LET l == ForIn(d.states, d.keys, Len(d.keys))
    IN /\ store = <<d>>
       /\ cur = 1
       /\ pc = "statusMap"
       /\ k = Len(d.keys)
       /\ lastStateIndex = l.lastStateIndex
       /\ tmpSite = l.tmpSite
       /\ siteLocation = (IF l.siteLocation = Null THEN l.tmpSite ELSE l.siteLocation)
       /\ status = NoValue
       /\ error = NoError
       /\ reads = {}
       /\ emitted = <<>>
       /\ first = <<{}>>

\* statusMap() is about to be evaluated on a job with at most n transitions
\* drawn from T, the loop having ended on any of its keys
BeforeStatusMap(T, n) ==
    \E m \in 0..n : \E h \in [0..(m - 1) -> T], idx \in 0..(m - 1) \cup {x \in {0} : m = 0} :
        AtStatusMap(Document("job", "wf1", h, EndingIn(m, idx)))

----------------------------------------------------------------------------
(* Specifications *)

\* the indexer runs the map function on one document, again and again
Init ==
    OneDocument({"job", "other"}, {"wf1", "wf2"},
                [oldstate : {"new", "exhausted", "bogus"},
                 newstate : {"created", "executing", "cleanout"},
                 location : Sites],
                MaxLen)

Spec == Init /\ [][Next]_vars

\* statusMap() on every pair of states of the vocabulary
InitStatusMap ==
    BeforeStatusMap([oldstate : OldStates, newstate : NewStates, location : {Agent}],
                    MaxLen)

NextStatusMap ==
    \/ CallStatusMap
    \/ Emit

SpecStatusMap == InitStatusMap /\ [][NextStatusMap]_vars

\* statusMap() on histories with transitions older than the last two
InitLookback ==
    BeforeStatusMap([oldstate : {"new", "jobfailed", "exhausted", "bogus"},
                     newstate : {"created", "executing", "cleanout"},
                     location : {Agent, "siteA"}],
                    MaxDeep)

SpecLookback == InitLookback /\ [][NextStatusMap]_vars

\* the indexer runs the map function over a database of NumDocs documents, in
\* any order, any number of times
IndexedDocs ==
    UNION {{Document("job", "wf1", h, ks) :
               h \in [0..(m - 1) -> [oldstate : {"new", "bogus"}, newstate : {"created"},
                                      location : {Agent, "siteA"}]],
               ks \in KeyOrders(m)} : m \in 0..MaxShort}
    \cup {Document("other", "wf1", <<>>, <<>>)}

InitIndex == \E docs \in [1..NumDocs -> IndexedDocs] : Start(docs)

SpecIndex == InitIndex /\ [][Next]_vars

----------------------------------------------------------------------------
(* Properties *)

\* the running invocation is on a job and statusMap() has returned or thrown
Classified == pc \in {"emit", "done"} /\ doc.type = "job"

History == doc.states
Last == History[lastStateIndex]
Prev == History[lastStateIndex - 1]
HasLast == lastStateIndex \in DOMAIN History
HasPrev == (lastStateIndex - 1) \in DOMAIN History

\* the rows of the decision table that consult the transition before the last
ConsultsPrev(t) ==
    \/ t.newstate = "executing"
    \/ t.newstate = "cleanout" /\ t.oldstate = "exhausted"

\* the decision table of the status classifier: <<newstate, disambiguator, status>>
ByLastOldstate ==
    {<<"created", "new", "queued_first">>,
     <<"created", "jobcooloff", "queued_retry">>,
     <<"exhausted", "jobfailed", "failure_exception">>,
     <<"exhausted", "submitfailed", "failure_submit">>,
     <<"exhausted", "createfailed", "failure_create">>,
     <<"cleanout", "success", "success">>}
ByPrevOldstate ==
    {<<"executing", "new", "submitted_first">>,
     <<"executing", "jobcooloff", "submitted_retry">>,
     <<"cleanout", "jobfailed", "failure_exception">>,
     <<"cleanout", "submitfailed", "failure_submit">>,
     <<"cleanout", "createfailed", "failure_create">>}
Unconditional ==
    {<<"jobcooloff", "cooloff">>, <<"success", "success">>, <<"killed", "canceled">>}
Disambiguated == {"created", "executing", "exhausted", "cleanout"}

\* the statuses the table gives for a last transition t and the oldstate po of
\* the transition before it; the empty set is the table's error
TableStatus(t, po) ==
    {r[2] : r \in {u \in Unconditional : u[1] = t.newstate}}
    \cup {r[3] : r \in {u \in ByLastOldstate :
                          u[1] = t.newstate /\ u[2] = t.oldstate}}
    \cup {r[3] : r \in {u \in ByPrevOldstate :
                          u[1] = t.newstate /\ ConsultsPrev(t) /\ u[2] = po}}
    \cup {x \in {"transition"} :
            t.newstate \notin Disambiguated
            /\ \A u \in Unconditional : u[1] # t.newstate}

\* C1: with T_last the transition at lastStateIndex and T_prev the one before
\* it, statusMap returns exactly the status of the decision table and throws
\* "not valid transition" exactly where the table says error, for every history
\* that holds T_last and, where the row consults it, T_prev.
C1_DecisionTable ==
    (Classified /\ HasLast /\ (ConsultsPrev(Last) => HasPrev)) =>
        LET expected == TableStatus(Last, IF HasPrev THEN Prev.oldstate ELSE NoValue)
        IN IF expected = {}
           THEN error = InvalidTransition /\ status = NoValue
           ELSE error = NoError /\ expected = {status}

C1_Witness ==
    /\ Classified /\ HasLast /\ HasPrev
    /\ Last.newstate = "cleanout"
    /\ Last.oldstate = "exhausted"
    /\ Prev.oldstate = "submitfailed"
    /\ status = "failure_submit"

\* the location of the transition at the highest position whose location is
\* not "Agent", "Agent" if there is none
RECURSIVE LatestSite(_, _)
LatestSite(h, n) ==
    IF n = 0 THEN Agent
    ELSE IF h[n - 1].location # Agent THEN h[n - 1].location
    ELSE LatestSite(h, n - 1)

\* C2: for every non-empty history the site of the emitted key is the location
\* of the transition at the highest position that is not "Agent", and "Agent"
\* if there is none.
C2_LatestSite ==
    (pc = "done" /\ doc.type = "job" /\ Len(doc.keys) > 0 /\ emitted # <<>>) =>
        emitted[1].key[3] = LatestSite(History, Len(doc.keys))

\* C3: an invocation emits exactly the one record ([workflow, status, site], 1)
\* when the document is a job and statusMap returned, nothing when the document
\* is no job or statusMap threw, never more than one record and none before
\* statusMap has returned.
C3_OneRecord ==
    /\ pc # "idle" => Len(emitted) <= 1
    /\ (pc # "idle" /\ status = NoValue) => emitted = <<>>
    /\ pc = "done" =>
          IF doc.type = "job" /\ error = NoError
          THEN emitted = <<[key |-> <<doc.workflow, status, siteLocation>>, value |-> 1]>>
          ELSE emitted = <<>>

C3_Witness ==
    /\ pc = "done"
    /\ doc.type = "job"
    /\ Len(emitted) = 1
    /\ emitted[1].key = <<"wf2", "queued_first", "siteB">>

\* C4: a job whose only transition enters executing, or enters cleanout from
\* exhausted, fails, emits nothing, and statusMap reads no position below 0.
C4_NoReadBelowZero ==
    (pc = "done" /\ doc.type = "job" /\ Len(doc.keys) = 1 /\ ConsultsPrev(History[0])) =>
        /\ error \in {InvalidTransition, TypeError}
        /\ emitted = <<>>
        /\ \A p \in reads : p >= 0

\* C5: whatever the order in which the for-in loop enumerates the keys, it
\* visits the positions in ascending order, so that after it lastStateIndex is
\* the highest position of the history.
C5_AscendingScan ==
    (pc # "idle" /\ doc.type = "job" /\ k > 0) => lastStateIndex = k - 1

C7_Idempotent ==
    [][/\ store' = store
       /\ pc' = "done" => first'[cur'] = {Outcome(error', emitted')}]_vars

\* a document is classified again after another document failed in between
C7_Witness ==
    /\ pc = "done"
    /\ Len(store) > 1
    /\ \A i \in 1..Len(store) : first[i] # {}
    /\ \E i \in 1..Len(store) : i # cur /\ \E o \in first[i] : o.error # NoError
    /\ error = NoError
    /\ emitted # <<>>
    /\ emitted[1].key[3] = Agent

\* the two-transition history that has nothing but the three values
Canonical(newstate, oldstate, prevOldstate) ==
    [i \in 0..1 |-> IF i = 0
                    THEN [oldstate |-> prevOldstate, newstate |-> "new", location |-> Agent]
                    ELSE [oldstate |-> oldstate, newstate |-> newstate, location |-> Agent]]

\* C8: for a history with T_last at lastStateIndex and T_prev before it, the
\* outcome is the outcome of the history that holds nothing but
\* T_last.newstate, T_last.oldstate and T_prev.oldstate, and statusMap reads no
\* position other than those of T_last and T_prev.
C8_BoundedLookback ==
    (Classified /\ HasLast /\ HasPrev) =>
        LET r == StatusMap(Canonical(Last.newstate, Last.oldstate, Prev.oldstate), 1)
        IN /\ status = r.status
           /\ error = r.error
           /\ reads \subseteq {lastStateIndex, lastStateIndex - 1}

C8_Witness ==
    /\ Classified /\ HasLast /\ HasPrev
    /\ lastStateIndex = 2
    /\ Last.newstate = "cleanout"
    /\ Last.oldstate = "exhausted"
    /\ Prev.oldstate = "jobfailed"
    /\ Prev.newstate # "exhausted"
    /\ History[0].oldstate = "bogus"
    /\ Prev.location # Last.location
    /\ status = "failure_exception"

\* the history before the transition at position n
Before(h, n) == [i \in 0..(n - 1) |-> h[i]]

\* C9: when T_last is {oldstate: s, newstate: cleanout} and follows a
\* transition that entered s, s being success or exhausted, the outcome is the
\* outcome of the history before T_last.
C9_CleanoutPreserves ==
    (/\ Classified /\ HasLast /\ HasPrev
     /\ Last.newstate = "cleanout"
     /\ Prev.newstate \in {"success", "exhausted"}
     /\ Last.oldstate = Prev.newstate) =>
        LET r == StatusMap(Before(History, lastStateIndex), lastStateIndex - 1)
        IN status = r.status /\ error = r.error

C9_Witness ==
    /\ Classified /\ HasLast /\ HasPrev
    /\ Last.newstate = "cleanout"
    /\ Prev.newstate = "exhausted"
    /\ Last.oldstate = "exhausted"
    /\ Prev.oldstate = "createfailed"
    /\ status = "failure_create"

\* C10: when T_last is {oldstate: created, newstate: executing} and follows a
\* transition that entered created, queued_first of the history before T_last
\* becomes submitted_first, queued_retry becomes submitted_retry, and the
\* outcome is the invalid transition error exactly when that of the history
\* before T_last is.
C10_SubmissionPreserves ==
    (/\ Classified /\ HasLast /\ HasPrev
     /\ Last.newstate = "executing"
     /\ Last.oldstate = "created"
     /\ Prev.newstate = "created") =>
        LET r == StatusMap(Before(History, lastStateIndex), lastStateIndex - 1)
        IN /\ r.status = "queued_first" => status = "submitted_first"
           /\ r.status = "queued_retry" => status = "submitted_retry"
           /\ r.error = InvalidTransition <=> error = InvalidTransition

C10_Witness ==
    /\ Classified /\ HasLast /\ HasPrev
    /\ Last.newstate = "executing"
    /\ Last.oldstate = "created"
    /\ Prev.newstate = "created"
    /\ Prev.oldstate = "jobcooloff"
    /\ status = "submitted_retry"

====
